---- MODULE Spec2Model ----
(***************************************************************************)
(* A model of the KigaliTransport backend (src/unnamed/part_000): the      *)
(* nearest-stop search and route recommendation, the simulated bus         *)
(* locations and the incident report log.                                  *)
(*                                                                         *)
(* Coordinates are integers in ticks.  Math.random() is discretised to     *)
(* the values rnd / RandRes, rnd \in 0 .. RandRes-1, and one tick is       *)
(* 0.001 / (2 * RandRes) degrees, so that every jitter the simulation can  *)
(* draw, (random - 0.5) * 0.001, is a whole number of ticks.               *)
(*                                                                         *)
(* The stop and route collections are module constants of the source       *)
(* (mock data).  The model draws them in Init, so that the operations are  *)
(* checked on every small collection, the empty one included.              *)
(*                                                                         *)
(* A JavaScript call either returns a value or throws: an outcome is       *)
(* Return(v) or Throw(e).  JavaScript's undefined is the value Undefined.  *)
(***************************************************************************)
EXTENDS Integers, Sequences, FiniteSets, TLC

VARIABLES
  stops,         \* const stops: Stop[]
  routes,        \* const routes: Route[]
  busLocations,  \* const busLocations: { [key: string]: Location }
  inits,         \* history: how often each route id's entry was created
  pollers,       \* position of each in-flight GET /api/bus-locations
  polls,         \* number of GET /api/bus-locations started
  reports,       \* const reports: Report[]
  clock,         \* Date.now()
  ticks,         \* number of clock advances
  nextId,        \* uuidv4(): the next fresh id
  demoDone,      \* the demonstration script pushed its report
  res            \* outcome of the last operation

vars == <<stops, routes, busLocations, inits, pollers, polls, reports, clock,
          ticks, nextId, demoDone, res>>

----------------------------------------------------------------------------
\* Bounds of the model.

\* Stops in a collection.
MaxStops == 3
\* Requests for the bus locations, run to completion.
MaxPolls == 3
\* Interleaved requests for the bus locations: how many at a time, how many
\* in all.
NumPollers == 2
MaxStarts == 2
\* Stored reports, and advances of the clock.
MaxReports == 3
MaxTicks == 3

\* Math.random() takes the values rnd / RandRes, rnd \in Rand.
RandRes == 3
Rand == 0 .. (RandRes - 1)

\* 0.001 degrees is 2 * RandRes ticks.
TicksPerDegree == 1000 * 2 * RandRes
Deg(d) == d * TicksPerDegree

----------------------------------------------------------------------------
\* Outcomes and JavaScript values.

Undefined == [undefined |-> TRUE]
Return(v) == [status |-> "return", value |-> v]
Throw(e) == [status |-> "throw", error |-> e]
Returned(o) == o.status = "return"
Threw(o) == o.status = "throw"

\* arr[i] of a JavaScript array, i counted from 0: undefined out of range.
ElementAt(arr, i) == IF i + 1 \in 1 .. Len(arr) THEN arr[i + 1] ELSE Undefined

\* Math.floor(Math.random() * n) for the draw rnd / RandRes.
RandomIndex(rnd, n) == (rnd * n) \div RandRes

Abs(x) == IF x < 0 THEN -x ELSE x

----------------------------------------------------------------------------
\* Mock data.

RoutesData ==
  << [route_id |-> "419", route_short_name |-> "419",
      route_long_name |-> "Nyabugogo-Cyumbati", route_color |-> "e92121"],
     [route_id |-> "101", route_short_name |-> "101",
      route_long_name |-> "Downtown-Remera", route_color |-> "B55C93"] >>

\* The route collections the model considers: the source's, and its prefixes.
RouteCollections == { SubSeq(RoutesData, 1, n) : n \in 0 .. Len(RoutesData) }

RouteIds == { routes[i].route_id : i \in 1 .. Len(routes) }

\* Locations of the 30-degree grid the distance tables below cover.
GridPoints ==
  { [lat |-> Deg(0), lon |-> Deg(0)],   [lat |-> Deg(0), lon |-> Deg(30)],
    [lat |-> Deg(30), lon |-> Deg(0)],  [lat |-> Deg(-30), lon |-> Deg(0)] }

MkStop(i, p) == [stop_id |-> i, stop_lat |-> p.lat, stop_lon |-> p.lon]

\* Every stop collection of at most n stops at grid points; the id of a stop
\* is its position, so ids are unique.
StopCollections(n) ==
  UNION { { [i \in 1 .. k |-> MkStop(i, f[i])] : f \in [1 .. k -> GridPoints] }
          : k \in 0 .. n }

\* The stop collections of the location simulation: k stops along the equator.
LineStops(k) == [i \in 1 .. k |-> MkStop(i, [lat |-> Deg(0), lon |-> Deg(30 * (i - 1))])]

----------------------------------------------------------------------------
\* calculateDistance: the haversine formula in fixed point.  Angles are
\* multiples of 15 degrees (the inputs are grid points, their differences
\* multiples of 30 degrees, halved by the formula); sines are scaled by 1000,
\* `a` by 10^6, the central angle c is in milliradians and the distance
\* R * c in metres.

\* 1000 * sin(k * 15 degrees), 0 <= k <= 6.
SinTable == <<0, 259, 500, 707, 866, 966, 1000>>

Sin15(k) ==
  LET m == Abs(k) % 24
      h == IF m > 12 THEN m - 12 ELSE m
      q == IF h > 6 THEN 12 - h ELSE h
      v == SinTable[q + 1]
      neg == (k < 0) # (m > 12)
  IN IF neg THEN -v ELSE v

Cos15(k) == Sin15(6 - Abs(k))

\* An angle in ticks as a multiple of 15 degrees.
Units15(t) == t \div Deg(15)

RECURSIVE SqrtSearch(_, _, _)
SqrtSearch(n, lo, hi) ==
  IF lo >= hi THEN lo
  ELSE LET mid == (lo + hi + 1) \div 2
       IN IF mid * mid <= n THEN SqrtSearch(n, mid, hi)
          ELSE SqrtSearch(n, lo, mid - 1)

\* Math.sqrt of x / 10^6, scaled by 1000.
Sqrt1000(x) == SqrtSearch(x, 0, 1000)

\* Math.atan of r / 1000 for 0 <= r <= 1000, in milliradians.
Atan1000(r) == (785 * r + (273 * r * (1000 - r)) \div 1000) \div 1000

\* Math.atan2(y, x) for y, x >= 0, in milliradians.
Atan2(y, x) ==
  IF y = 0 THEN 0
  ELSE IF y <= x THEN Atan1000((1000 * y) \div x)
  ELSE 1571 - Atan1000((1000 * x) \div y)

EarthRadiusKm == 6371

haversine(loc1, loc2) ==
  LET R == EarthRadiusKm
      halfLat == Units15(loc2.lat - loc1.lat) \div 2
      halfLon == Units15(loc2.lon - loc1.lon) \div 2
      sLat == Sin15(halfLat)
      sLon == Sin15(halfLon)
      cc == (Cos15(Units15(loc1.lat)) * Cos15(Units15(loc2.lat))) \div 1000
      a == sLat * sLat + (cc * (sLon * sLon)) \div 1000
      c == 2 * Atan2(Sqrt1000(a), Sqrt1000(1000000 - a))
  IN R * c

\* The distances between grid points, computed once.
Distances == [loc1 \in GridPoints, loc2 \in GridPoints |-> haversine(loc1, loc2)]

calculateDistance(loc1, loc2) == Distances[loc1, loc2]

----------------------------------------------------------------------------
\* findNearestStop: stops.reduce without an initial value.  The accumulator
\* starts as the first stop and the callback runs from the second on; on an
\* empty array reduce throws a TypeError.

\* Faulty variant of reduceNearest: <= for <, so that the last of several
\* nearest stops wins.
RECURSIVE reduceNearestLastWins(_, _, _)
reduceNearestLastWins(location, nearest, i) ==
  IF i > Len(stops) THEN nearest
  ELSE LET stop == stops[i]
           distance == calculateDistance(location,
                         [lat |-> stop.stop_lat, lon |-> stop.stop_lon])
       IN reduceNearestLastWins(location,
            IF distance <= calculateDistance(location,
                             [lat |-> nearest.stop_lat, lon |-> nearest.stop_lon])
            THEN stop ELSE nearest,
            i + 1)

RECURSIVE reduceNearest(_, _, _)
reduceNearest(location, nearest, i) ==
  IF i > Len(stops) THEN nearest
  ELSE LET stop == stops[i]
           distance == calculateDistance(location,
                         [lat |-> stop.stop_lat, lon |-> stop.stop_lon])
       IN reduceNearest(location,
            IF distance < calculateDistance(location,
                            [lat |-> nearest.stop_lat, lon |-> nearest.stop_lon])
            THEN stop ELSE nearest,
            i + 1)

findNearestStop(location) ==
  IF stops = <<>> THEN Throw("TypeError")
  ELSE Return(reduceNearest(location, stops[1], 2))

\* recommendRoute: rnd is the draw of Math.random().
recommendRoute(start, end, rnd) ==
  LET startStop == findNearestStop(start)
      endStop == findNearestStop(end)
      recommendedRoute == ElementAt(routes, RandomIndex(rnd, Len(routes)))
      \* Math.round(km / 30 * 60), the distance being in metres here
      estimatedDuration == (calculateDistance(start, end) * 2 + 500) \div 1000
  IN IF Threw(startStop) THEN startStop
     ELSE IF Threw(endStop) THEN endStop
     ELSE Return([route |-> recommendedRoute,
                  startStop |-> startStop.value,
                  endStop |-> endStop.value,
                  estimatedDuration |-> estimatedDuration])

----------------------------------------------------------------------------
\* The simulated bus locations.

\* Faulty variant of Jitter: Math.random() * 0.001, not centred.
JitterUncentred(rnd) == (2 * rnd * TicksPerDegree) \div (2000 * RandRes)

\* (Math.random() - 0.5) * 0.001 degrees, in ticks.
Jitter(rnd) == ((2 * rnd - RandRes) * TicksPerDegree) \div (2000 * RandRes)

\* Faulty variant of pollRoute: the entry is stored under the route's name.
pollRouteByName(locs, route, d) ==
  LET id == route.route_long_name
  IN IF id \notin DOMAIN locs
     THEN LET randomStop == ElementAt(stops, RandomIndex(d.a, Len(stops)))
          IN IF randomStop = Undefined
             THEN [status |-> "throw", error |-> "TypeError",
                   locs |-> locs, created |-> {}]
             ELSE [status |-> "return",
                   locs |-> (id :> [lat |-> randomStop.stop_lat,
                                    lon |-> randomStop.stop_lon]) @@ locs,
                   created |-> {}]
     ELSE [status |-> "return",
           locs |-> [locs EXCEPT ![id] = [lat |-> @.lat + ((2 * d.a - RandRes) * TicksPerDegree) \div (2000 * RandRes),
                                          lon |-> @.lon + ((2 * d.b - RandRes) * TicksPerDegree) \div (2000 * RandRes)]],
           created |-> {}]

\* Faulty variant of pollRoute: no test for an existing entry, every poll
\* puts the route at a random stop.
pollRouteAlwaysInit(locs, route, d) ==
  LET id == route.route_id
      randomStop == ElementAt(stops, RandomIndex(d.a, Len(stops)))
  IN IF randomStop = Undefined
     THEN [status |-> "throw", error |-> "TypeError",
           locs |-> locs, created |-> {}]
     ELSE [status |-> "return",
           locs |-> (id :> [lat |-> randomStop.stop_lat,
                            lon |-> randomStop.stop_lon]) @@ locs,
           created |-> {id}]

\* The body of routes.forEach in GET /api/bus-locations for one route, on the
\* map locs; d.a and d.b are the draws of Math.random().  Reading stop_lat of
\* an undefined randomStop throws a TypeError before the entry is assigned.
pollRoute(locs, route, d) ==
  LET id == route.route_id
  IN IF id \notin DOMAIN locs
     THEN LET randomStop == ElementAt(stops, RandomIndex(d.a, Len(stops)))
          IN IF randomStop = Undefined
             THEN [status |-> "throw", error |-> "TypeError",
                   locs |-> locs, created |-> {}]
             ELSE [status |-> "return",
                   locs |-> (id :> [lat |-> randomStop.stop_lat,
                                    lon |-> randomStop.stop_lon]) @@ locs,
                   created |-> {id}]
     ELSE [status |-> "return",
           locs |-> [locs EXCEPT ![id] = [lat |-> @.lat + Jitter(d.a),
                                          lon |-> @.lon + Jitter(d.b)]],
           created |-> {}]

\* routes.forEach from the i-th route on; an exception ends the loop and
\* leaves the entries written so far.
RECURSIVE forEachRoute(_, _, _, _)
forEachRoute(locs, created, i, draws) ==
  IF i > Len(routes) THEN [status |-> "return", locs |-> locs, created |-> created]
  ELSE LET o == pollRoute(locs, routes[i], draws[i])
       IN IF Threw(o) THEN [o EXCEPT !.created = created]
          ELSE forEachRoute(o.locs, created \cup o.created, i + 1, draws)

Draws == [a : Rand, b : Rand]

Created(cnt, ids) == [id \in DOMAIN cnt |-> IF id \in ids THEN cnt[id] + 1 ELSE cnt[id]]

\* What the handler sends: the map on return, an error answer on a throw.
LocationsAnswer(o) ==
  IF Threw(o) THEN [op |-> "bus-locations", out |-> Throw(o.error)]
  ELSE [op |-> "bus-locations", out |-> Return(o.locs)]

\* GET /api/bus-locations, run to completion.
PollAll ==
  /\ polls < MaxPolls
  /\ \A p \in DOMAIN pollers : pollers[p] = 0
  /\ \E draws \in [1 .. Len(routes) -> Draws] :
       LET o == forEachRoute(busLocations, {}, 1, draws)
       IN /\ busLocations' = o.locs
          /\ inits' = Created(inits, o.created)
          /\ res' = LocationsAnswer(o)
  /\ polls' = polls + 1
  /\ UNCHANGED <<stops, routes, pollers, reports, clock, ticks, nextId, demoDone>>

\* GET /api/bus-locations, one route of one invocation at a time: poller p is
\* idle (0), about to handle its i-th route (i), or about to answer
\* (Len(routes) + 1).
StartPoll(p) ==
  /\ polls < MaxStarts
  /\ pollers[p] = 0
  /\ pollers' = [pollers EXCEPT ![p] = 1]
  /\ polls' = polls + 1
  /\ UNCHANGED <<stops, routes, busLocations, inits, reports, clock, ticks,
                 nextId, demoDone, res>>

PollStep(p) ==
  /\ pollers[p] \in 1 .. Len(routes)
  /\ \E d \in Draws :
       LET o == pollRoute(busLocations, routes[pollers[p]], d)
       IN /\ busLocations' = o.locs
          /\ inits' = Created(inits, o.created)
          /\ IF Threw(o)
             THEN /\ pollers' = [pollers EXCEPT ![p] = 0]
                  /\ res' = LocationsAnswer(o)
             ELSE /\ pollers' = [pollers EXCEPT ![p] = @ + 1]
                  /\ UNCHANGED res
  /\ UNCHANGED <<stops, routes, polls, reports, clock, ticks, nextId, demoDone>>

Respond(p) ==
  /\ pollers[p] = Len(routes) + 1
  /\ pollers' = [pollers EXCEPT ![p] = 0]
  /\ res' = [op |-> "bus-locations", out |-> Return(busLocations)]
  /\ UNCHANGED <<stops, routes, busLocations, inits, polls, reports, clock,
                 ticks, nextId, demoDone>>

----------------------------------------------------------------------------
\* Recommendation and reference data.

RecommendRoute ==
  /\ \E start \in GridPoints, end \in GridPoints, rnd \in Rand :
       res' = [op |-> "recommend-route", start |-> start, end |-> end,
               out |-> recommendRoute(start, end, rnd)]
  /\ UNCHANGED <<stops, routes, busLocations, inits, pollers, polls, reports,
                 clock, ticks, nextId, demoDone>>

GetStops ==
  /\ res' = [op |-> "stops", out |-> Return(stops)]
  /\ UNCHANGED <<stops, routes, busLocations, inits, pollers, polls, reports,
                 clock, ticks, nextId, demoDone>>

GetRoutes ==
  /\ res' = [op |-> "routes", out |-> Return(routes)]
  /\ UNCHANGED <<stops, routes, busLocations, inits, pollers, polls, reports,
                 clock, ticks, nextId, demoDone>>

----------------------------------------------------------------------------
\* The report log.

RecentWindowMs == 3600000

\* What a client may send as the type of a report: the body is untyped.
SentTypes == {"TRAFFIC", "ACCIDENT", "OTHER", "BOGUS"}

\* { lat: -1.9534, lon: 30.0616 }, to the whole degree.
CityTower == [lat |-> Deg(-2), lon |-> Deg(30)]

newReport(type, location, description) ==
  [id |-> nextId, type |-> type, location |-> location,
   description |-> description, timestamp |-> clock]

\* POST /api/report (the handler the source keeps commented out): no check
\* of the body, the report is pushed and answered with 201.
SubmitReport ==
  /\ Len(reports) < MaxReports
  /\ \E type \in SentTypes :
       LET r == newReport(type, CityTower, "report")
       IN /\ reports' = Append(reports, r)
          /\ res' = [op |-> "report", code |-> 201, out |-> Return(r)]
  /\ nextId' = nextId + 1
  /\ UNCHANGED <<stops, routes, busLocations, inits, pollers, polls, clock,
                 ticks, demoDone>>

\* The report the demonstration script pushes, once.
DemoReport ==
  /\ ~demoDone
  /\ Len(reports) < MaxReports
  /\ reports' = Append(reports,
       newReport("TRAFFIC", CityTower, "Heavy traffic due to road construction"))
  /\ nextId' = nextId + 1
  /\ demoDone' = TRUE
  /\ UNCHANGED <<stops, routes, busLocations, inits, pollers, polls, clock,
                 ticks, res>>

\* Faulty variant of recentReports: <= for <.
recentReportsInclusive(now) ==
  SelectSeq(reports, LAMBDA report : now - report.timestamp <= RecentWindowMs)

\* reports.filter(report => Date.now() - report.timestamp < 3600000)
recentReports(now) ==
  SelectSeq(reports, LAMBDA report : now - report.timestamp < RecentWindowMs)

\* Faulty variant of GetReports: the log is cut down to the recent reports.
GetReportsPruning ==
  /\ res' = [op |-> "reports", now |-> clock, out |-> Return(recentReports(clock))]
  /\ reports' = recentReports(clock)
  /\ UNCHANGED <<stops, routes, busLocations, inits, pollers, polls, clock,
                 ticks, nextId, demoDone>>

\* GET /api/reports
GetReports ==
  /\ res' = [op |-> "reports", now |-> clock, out |-> Return(recentReports(clock))]
  /\ UNCHANGED <<stops, routes, busLocations, inits, pollers, polls, reports,
                 clock, ticks, nextId, demoDone>>

\* Time passes: by a millisecond, or by a millisecond less than the window.
Tick ==
  /\ ticks < MaxTicks
  /\ \E d \in {1, RecentWindowMs - 1} : clock' = clock + d
  /\ ticks' = ticks + 1
  /\ UNCHANGED <<stops, routes, busLocations, inits, pollers, polls, reports,
                 nextId, demoDone, res>>

----------------------------------------------------------------------------
\* Specifications.

InitWith(stopCollections) ==
  /\ stops \in stopCollections
  /\ routes \in RouteCollections
  /\ busLocations = <<>>
  /\ inits = [id \in {RoutesData[i].route_id : i \in 1 .. Len(RoutesData)} |-> 0]
  /\ pollers = [p \in 1 .. NumPollers |-> 0]
  /\ polls = 0
  /\ reports = <<>>
  /\ clock = 0
  /\ ticks = 0
  /\ nextId = 1
  /\ demoDone = FALSE
  /\ res = [op |-> "none"]

Init == InitWith(StopCollections(MaxStops))

\* Recommendation over every stop collection.
NextRecommend == RecommendRoute \/ GetStops \/ GetRoutes
SpecRecommend == Init /\ [][NextRecommend]_vars

\* The location simulation, each request run to completion.
InitLocations == InitWith({ LineStops(k) : k \in 0 .. MaxStops })
NextLocations == PollAll
SpecLocations == InitLocations /\ [][NextLocations]_vars

\* The location simulation, requests interleaved route by route.
NextConcurrent == \E p \in 1 .. NumPollers : StartPoll(p) \/ PollStep(p) \/ Respond(p)
SpecConcurrent == InitLocations /\ [][NextConcurrent]_vars

\* The report log, with the source's two stops and two routes.
InitReports == InitWith({LineStops(2)}) /\ routes = RoutesData
NextReports == SubmitReport \/ DemoReport \/ GetReports \/ Tick
SpecReports == InitReports /\ [][NextReports]_vars

\* Every operation, each request run to completion.  The three parts share no
\* state they write, and each is checked on its own above.
Next == NextRecommend \/ NextLocations \/ NextReports
Spec == Init /\ [][Next]_vars

----------------------------------------------------------------------------
\* Properties of findNearestStop and recommendRoute (SpecRecommend).

StopLocation(stop) == [lat |-> stop.stop_lat, lon |-> stop.stop_lon]

\* s is the first stop of the collection at the least distance from p.
FirstNearest(p, s) ==
  \E k \in 1 .. Len(stops) :
    /\ s = stops[k]
    /\ \A j \in 1 .. Len(stops) :
         /\ calculateDistance(p, StopLocation(stops[j]))
              >= calculateDistance(p, StopLocation(stops[k]))
         /\ j < k => calculateDistance(p, StopLocation(stops[j]))
                       > calculateDistance(p, StopLocation(stops[k]))

\* C1: on a non-empty stop collection the nearest stop of the start and of
\* the end point is a stop of the collection at the least distance from the
\* point, and the first such stop in collection order.
C1_NearestIsFirstMinimum ==
  (res.op = "recommend-route" /\ stops # <<>>) =>
    /\ Returned(res.out)
    /\ FirstNearest(res.start, res.out.value.startStop)
    /\ FirstNearest(res.end, res.out.value.endStop)

\* A recommendation whose start stop is not the first stop of the collection
\* and ties with a later stop.
C1_Witness ==
  /\ res.op = "recommend-route"
  /\ Len(stops) = 3
  /\ Returned(res.out)
  /\ \E k \in 2 .. Len(stops), j \in 1 .. Len(stops) :
       /\ j > k
       /\ res.out.value.startStop = stops[k]
       /\ calculateDistance(res.start, StopLocation(stops[j]))
            = calculateDistance(res.start, StopLocation(stops[k]))

\* C2: with an empty stop collection a recommendation fails with EmptyIndex.
C2_EmptyIndex ==
  (res.op = "recommend-route" /\ stops = <<>>) => res.out = Throw("EmptyIndex")

\* C3: with an empty route collection and a non-empty stop collection a
\* recommendation fails with EmptyCatalog; no recommendation is returned
\* whose route is undefined.
C3_EmptyCatalog ==
  (res.op = "recommend-route" /\ routes = <<>> /\ stops # <<>>) =>
    /\ res.out = Throw("EmptyCatalog")
    /\ ~(Returned(res.out) /\ res.out.value.route = Undefined)

----------------------------------------------------------------------------
\* Properties of the report log (SpecReports).

InSeq(x, seq) == \E j \in 1 .. Len(seq) : seq[j] = x

\* out holds exactly the reports of log younger than an hour at time now,
\* in the order of log.
RecentExactly(out, log, now) ==
  /\ \A i \in 1 .. Len(log) :
       /\ InSeq(log[i], out) <=> now - log[i].timestamp <= 3599999
       /\ now - log[i].timestamp = 3599999 => InSeq(log[i], out)
       /\ now - log[i].timestamp \in {3600000, 3600001} => ~InSeq(log[i], out)
  /\ \A j \in 1 .. Len(out) : InSeq(out[j], log)
  /\ \A j, k \in 1 .. Len(out) :
       j < k => \E a, b \in 1 .. Len(log) :
                  a < b /\ log[a] = out[j] /\ log[b] = out[k]

\* C4: GET /api/reports answers exactly the stored reports with
\* now - timestamp < 3600000, in insertion order.
C4_RecentWindow ==
  [][(res' # res /\ res'.op = "reports")
       => RecentExactly(res'.out.value, reports, clock)]_vars

\* An answer that holds a report of age 3599999 and leaves out reports of age
\* 3600000 and 3600001.
C4_Witness ==
  /\ res.op = "reports"
  /\ res.now = clock
  /\ \E a, b, c \in 1 .. Len(reports) :
       /\ clock - reports[a].timestamp = 3600001
       /\ clock - reports[b].timestamp = 3600000
       /\ clock - reports[c].timestamp = 3599999
       /\ ~InSeq(reports[a], res.out.value)
       /\ ~InSeq(reports[b], res.out.value)
       /\ InSeq(reports[c], res.out.value)

C7_AppendOnly ==
  [][/\ Len(reports) <= Len(reports')
     /\ SubSeq(reports', 1, Len(reports)) = reports
     /\ (res' # res /\ res'.op = "reports") => reports' = reports]_vars

\* The log still holds a report older than an hour that the last answer of
\* GET /api/reports left out.
C7_Witness ==
  /\ res.op = "reports"
  /\ Len(reports) >= 2
  /\ Len(res.out.value) < Len(reports)
  /\ \E i \in 1 .. Len(reports) :
       /\ clock - reports[i].timestamp > RecentWindowMs
       /\ ~InSeq(reports[i], res.out.value)

----------------------------------------------------------------------------
\* Properties of the location simulation (SpecLocations, SpecConcurrent).

AtStop(loc) == \E k \in 1 .. Len(stops) : loc = StopLocation(stops[k])

\* The two locations differ by at most 0.0005 degrees on each axis.
Near(l1, l2) ==
  /\ 2000 * Abs(l1.lat - l2.lat) <= TicksPerDegree
  /\ 2000 * Abs(l1.lon - l2.lon) <= TicksPerDegree

\* C5: a request that answers puts every route without an entry at the exact
\* coordinate of a stop, moves every other route by at most 0.0005 degrees of
\* latitude and of longitude, and answers the new coordinates.
C5_PollMoves ==
  [][(polls' # polls /\ Returned(res'.out)) =>
       \A id \in RouteIds :
         /\ id \in DOMAIN busLocations'
         /\ res'.out.value[id] = busLocations'[id]
         /\ IF id \notin DOMAIN busLocations
            THEN AtStop(busLocations'[id]) /\ inits'[id] = 1
            ELSE Near(busLocations[id], busLocations'[id])]_vars

\* After a second request a route is away from every stop.
C5_Witness ==
  /\ polls = 2
  /\ Returned(res.out)
  /\ \E id \in DOMAIN busLocations :
       /\ ~AtStop(busLocations[id])
       /\ res.out.value[id] = busLocations[id]

\* C8: every key of the map is the id of a route, with one entry per route
\* at most; after a request that answers with a non-empty stop collection the
\* map and the answer hold exactly the routes of the collection.
C8_KeysAreRoutes ==
  /\ DOMAIN busLocations \subseteq RouteIds
  /\ Cardinality(DOMAIN busLocations) <= Len(routes)
  /\ (res.op = "bus-locations" /\ Returned(res.out) /\ stops # <<>>) =>
       /\ DOMAIN busLocations = RouteIds
       /\ DOMAIN res.out.value = RouteIds

\* A request over two routes and a non-empty stop collection has answered.
C8_Witness ==
  /\ res.op = "bus-locations"
  /\ Returned(res.out)
  /\ stops # <<>>
  /\ Len(routes) = 2
  /\ Cardinality(DOMAIN busLocations) = 2

\* C9: with an empty stop collection and a route without an entry the
\* request fails with EmptyIndex and leaves the map as it was.
C9_EmptyIndexNoChange ==
  [][(polls' # polls /\ stops = <<>> /\ RouteIds \ DOMAIN busLocations # {}) =>
       /\ res'.out = Throw("EmptyIndex")
       /\ busLocations' = busLocations]_vars

\* C10: with requests interleaved route by route, an entry is created once
\* per route; an entry that exists stays, and moves by at most 0.0005 degrees
\* per step, never back to a stop by a new initialisation.
C10_InitialisedOnce ==
  [][\A id \in DOMAIN inits :
       /\ inits'[id] <= 1
       /\ id \in DOMAIN busLocations =>
            /\ id \in DOMAIN busLocations'
            /\ inits'[id] = inits[id]
            /\ Near(busLocations[id], busLocations'[id])]_vars

\* Two requests are in flight and a route created by one was moved by the
\* other.
C10_Witness ==
  /\ \A p \in 1 .. NumPollers : pollers[p] > 0
  /\ \E id \in DOMAIN busLocations : inits[id] = 1 /\ ~AtStop(busLocations[id])

====
